---- MODULE Spec2Model ----
(***************************************************************************)
(* rust-multiplatform: the action-dispatch container generated by          *)
(* register_app! (src/src/macros.rs), the update channel and forwarder     *)
(* (src/src/utils.rs), the AppBuilder (src/src/traits/mod.rs) and the      *)
(* direct use of the ViewModel statics made by src/src/tests.rs.           *)
(*                                                                         *)
(* Caller threads call RmpModel::action / listen_for_model_updates and the *)
(* public ViewModel::init / ViewModel::model_update; forwarder threads run *)
(* the loop spawned by utils::listen_for_model_updates.  once_cell's       *)
(* get_or_init, std's RwLock and crossbeam's unbounded channel are         *)
(* modelled by their documented behaviour.                                 *)
(***************************************************************************)
EXTENDS Integers, Sequences, FiniteSets, TLC

\* ---------------------------------------------------------------- bounds
NumCallers == 2
MaxCount == 4
MaxUpdates == 2
MaxForwarders == 2

Callers == 1..NumCallers
\* The channel made by the Model factory and the one made by test_view_model.
Chans == {"model", "test"}
NoChan == "none"
Fwds == 1..MaxForwarders
None == 0

\* RmpModel::new(data_dir): the handle caller t dispatches through.
RmpModelNew(t) == [data_dir |-> t]

VARIABLES
    cell,       \* GLOBAL_MODEL: "uninit", "initializing" (a get_or_init closure runs), "init"
    model,      \* the value in GLOBAL_MODEL's RwLock: [count, data_dir, rx]
    created,    \* number of times the Model factory create() has run
    modelId,    \* identity of the stored instance (the ordinal of the create() that made it)
    writer,     \* RwLock: the caller holding the write guard, or None
    readers,    \* RwLock: the callers holding a read guard
    poisoned,   \* RwLock: poison flag
    viewModel,  \* GLOBAL_VIEW_MODEL: the channel whose sender is bound, or None
    firstInit,  \* history: the channel of the sender given to the first init call
    chan,       \* channels: [made, queue, senders, rxHolders]
    pushed,     \* history: per channel, the updates sent on it, in send order
    nextU,      \* the next update value to be published (updates are numbered)
    dropped,    \* history: updates whose model_update found no bound sender
    pc,         \* per caller: position inside its current call
    op,         \* per caller: the call in progress
    ref,        \* per caller: the identity of the Model its get_or_set_global_model returned
    tmp,        \* per caller: the count read by `self.count += 1`
    unapplied,  \* history: per caller, its submitted actions not yet applied to the Model
    returned,   \* history: number of action() calls that returned normally
    hpc,        \* position of the thread running test_view_model
    got,        \* what its try_recv returned: <<"none">>, <<"Err">> or <<"Ok", update>>
    fwd,        \* forwarder threads: [state, chan, item]
    delivered,  \* per forwarder's observer: the updates notify returned for, in order
    taken,      \* history: per forwarder, the number of items its recv calls returned
    backlog,    \* history: the Model's queue when the first forwarder was spawned
    atClose     \* history: the Model's queue when the application dropped its Sender

vars == <<cell, model, created, modelId, writer, readers, poisoned, viewModel, firstInit,
          chan, pushed, nextU, dropped, pc, op, ref, tmp, unapplied,
          returned, hpc, got, fwd, delivered, taken, backlog, atClose>>

lockVars == <<writer, readers, poisoned>>
modelVars == <<cell, model, created, modelId>>
chanVars == <<viewModel, firstInit, chan, pushed, nextU, dropped>>
hostVars == <<hpc, got>>
fwdVars == <<fwd, delivered, taken, backlog, atClose>>
callVars == <<op, ref, tmp, unapplied, returned>>

\* ------------------------------------------------------------- channel
\* crossbeam::channel::unbounded(): one sender, one receiver, empty queue.
create_model_update_channel == [made |-> TRUE, queue |-> <<>>, senders |-> 1, rxHolders |-> 1]

NoChannel == [made |-> FALSE, queue |-> <<>>, senders |-> 0, rxHolders |-> 0]

\* A send that puts the item at the head.
SendFront(q, u) == <<u>> \o q

\* Sender::send on an unbounded channel: appends at the tail, never blocks.
Send(q, u) == Append(q, u)

\* An init that rebinds: the latest sender wins.
ViewModelInitRebind(c) == c

\* $ViewModel::init: GLOBAL_VIEW_MODEL.get_or_init(|| $ViewModel(sender)).
ViewModelInit(c) == IF viewModel = NoChan THEN c ELSE viewModel

\* The sender moved into init lives in the static when bound, and is dropped
\* with the unused closure otherwise.
SendersAfterInit(n) == IF viewModel = NoChan THEN n ELSE n - 1

\* $ViewModel::model_update: "sent", "dropped" (no sender bound) or "panic"
\* (send returned Err: every receiver is gone; expect panics).
ModelUpdateOutcome ==
    IF viewModel = NoChan THEN "dropped"
    ELSE IF chan[viewModel].rxHolders = 0 THEN "panic"
    ELSE "sent"

\* A model_update that parks the update on the Model's channel when no sender
\* is bound.
ChanAfterModelUpdateParked(u) ==
    IF ModelUpdateOutcome = "panic" THEN chan
    ELSE [chan EXCEPT ![IF viewModel = NoChan THEN "model" ELSE viewModel].queue = Send(@, u)]

\* A model_update that sends only while a forwarder is listening.
ChanAfterModelUpdateUnlistened(u) ==
    IF ModelUpdateOutcome = "sent" /\ \E f \in Fwds : fwd[f].state # "unspawned"
    THEN [chan EXCEPT ![viewModel].queue = Send(@, u)]
    ELSE chan

\* $ViewModel::model_update: the channel state after it.
ChanAfterModelUpdate(u) ==
    IF ModelUpdateOutcome = "sent"
    THEN [chan EXCEPT ![viewModel].queue = Send(@, u)]
    ELSE chan

\* A channel of capacity one: send waits while an item is queued.
CanSendBounded(q) == Len(q) < 1

\* unbounded(): send on a queue of any length returns at once.
CanSend(q) == TRUE

\* The effect of one $ViewModel::model_update(nextU) on the channel state.
ModelUpdate ==
    /\ ModelUpdateOutcome = "sent" => CanSend(chan[viewModel].queue)
    /\ chan' = ChanAfterModelUpdate(nextU)
    /\ pushed' = IF ModelUpdateOutcome = "sent"
                 THEN [pushed EXCEPT ![viewModel] = Append(@, nextU)]
                 ELSE pushed
    /\ dropped' = IF ModelUpdateOutcome = "dropped" THEN dropped \cup {nextU} ELSE dropped
    /\ nextU' = nextU + 1
    /\ UNCHANGED <<viewModel, firstInit>>

\* ------------------------------------------------------------ the Model
NoModel == [count |-> 0, data_dir |-> None, rx |-> NoChan]
NoCall == [kind |-> "none", emit |-> FALSE]

\* TestModel::create(data_dir): count starts at 0.
TestModelCreate(data_dir) == [count |-> 0, data_dir |-> data_dir]

\* An AppBuilder::new that forgets the data directory.
AppBuilderNewNoDir(data_dir, rx) == [model_update_rx |-> rx, data_dir |-> None]

\* An AppBuilder::new that does not keep the receiver it is given.
AppBuilderNewDropsRx(data_dir, rx) == [model_update_rx |-> NoChan, data_dir |-> data_dir]

\* AppBuilder::new(data_dir, receiver): wraps the receiving half in an Arc.
AppBuilderNew(data_dir, rx) == [model_update_rx |-> rx, data_dir |-> data_dir]

\* The Model factory: creates the channel, gives the sender to ViewModel::init
\* and keeps the receiver in its AppBuilder.
Create(data_dir, c) ==
    [count |-> TestModelCreate(data_dir).count,
     data_dir |-> AppBuilderNew(data_dir, c).data_dir,
     rx |-> AppBuilderNew(data_dir, c).model_update_rx]

\* TestModel::action: `self.count += 1` on the value read.
CountAfterAction(read) == read + 1

\* ---------------------------------------------------------------- Init
Init ==
    /\ cell = "uninit" /\ model = NoModel /\ created = 0 /\ modelId = None
    /\ writer = None /\ readers = {} /\ poisoned = FALSE
    /\ viewModel = NoChan /\ firstInit = NoChan
    /\ chan = [c \in Chans |-> NoChannel]
    /\ pushed = [c \in Chans |-> <<>>]
    /\ nextU = 1 /\ dropped = {}
    /\ pc = [t \in Callers |-> "idle"]
    /\ op = [t \in Callers |-> NoCall]
    /\ ref = [t \in Callers |-> None]
    /\ tmp = [t \in Callers |-> 0]
    /\ unapplied = [t \in Callers |-> 0]
    /\ returned = 0
    /\ hpc = "start" /\ got = <<"none">>
    /\ fwd = [f \in Fwds |-> [state |-> "unspawned", chan |-> NoChan, item |-> None]]
    /\ delivered = [f \in Fwds |-> <<>>]
    /\ taken = [f \in Fwds |-> 0]
    /\ backlog = <<>> /\ atClose = <<>>

\* ------------------------------------------------------- caller threads
\* An action() call whose mutation has not been applied yet.
Pending(t) == op[t].kind = "action" /\ pc[t] \in {"get_or_init", "create", "lock", "store"}

\* A get_or_init that does not exclude a second closure: the cell stays empty
\* while the first closure runs.
CellAfterClaimRacy == "uninit"

\* OnceCell::get_or_init claims the cell for the one closure that will run.
CellAfterClaim == "initializing"

\* A get_or_set_global_model that builds a Model on every call and stores it
\* over the one in place.
GetOrSetGlobalModelReplacing(t) ==
    \/ /\ cell # "initializing"
       /\ pc' = [pc EXCEPT ![t] = "create"]
       /\ UNCHANGED <<cell, ref>>
    \/ /\ cell = "initializing" /\ pc[t] = "idle"
       /\ pc' = [pc EXCEPT ![t] = "get_or_init"]
       /\ UNCHANGED <<cell, ref>>

\* get_or_set_global_model: GLOBAL_MODEL.get_or_init(|| RwLock::new(create(data_dir))).
\* An initialized cell is returned; an empty one is claimed by this caller, which
\* then runs the closure; while another caller's closure runs, the caller waits.
GetOrSetGlobalModel(t) ==
    \/ /\ cell = "init"
       /\ ref' = [ref EXCEPT ![t] = modelId]
       /\ pc' = [pc EXCEPT ![t] = "lock"]
       /\ UNCHANGED cell
    \/ /\ cell = "uninit"
       /\ cell' = CellAfterClaim
       /\ pc' = [pc EXCEPT ![t] = "create"]
       /\ UNCHANGED ref
    \/ /\ cell = "initializing" /\ pc[t] = "idle"
       /\ pc' = [pc EXCEPT ![t] = "get_or_init"]
       /\ UNCHANGED <<cell, ref>>

\* A caller calls RmpModel::action(action) and reaches get_or_set_global_model;
\* emit says whether the Model's mutation step publishes an update after
\* incrementing.
CallAction(t, e) ==
    /\ pc[t] = "idle"
    /\ model.count + Cardinality({u \in Callers : Pending(u)}) < MaxCount
    /\ e => nextU + Cardinality({u \in Callers : op[u].emit}) <= MaxUpdates
    /\ GetOrSetGlobalModel(t)
    /\ op' = [op EXCEPT ![t] = [kind |-> "action", emit |-> e]]
    /\ unapplied' = [unapplied EXCEPT ![t] = @ + 1]
    /\ UNCHANGED <<model, created, modelId, lockVars, chanVars, hostVars, fwdVars, tmp,
                   returned>>

\* A caller calls RmpModel::listen_for_model_updates(view_model) and reaches
\* get_or_set_global_model.
CallListen(t) ==
    /\ pc[t] = "idle"
    /\ Cardinality({f \in Fwds : fwd[f].state # "unspawned"})
         + Cardinality({u \in Callers : op[u].kind = "listen"}) < MaxForwarders
    /\ GetOrSetGlobalModel(t)
    /\ op' = [op EXCEPT ![t] = [kind |-> "listen", emit |-> FALSE]]
    /\ UNCHANGED <<model, created, modelId, lockVars, chanVars, hostVars, fwdVars, tmp,
                   unapplied, returned>>

\* A caller waiting in get_or_init goes on.
WaitGlobalModel(t) ==
    /\ pc[t] = "get_or_init"
    /\ GetOrSetGlobalModel(t)
    /\ UNCHANGED <<model, created, modelId, lockVars, chanVars, hostVars, fwdVars, op, tmp,
                   unapplied, returned>>

\* The get_or_init closure: the Model factory runs with this handle's data_dir
\* and the RwLock around the new Model is stored in GLOBAL_MODEL.
RunCreate(t) ==
    /\ pc[t] = "create"
    /\ LET c == "model" IN
        /\ model' = Create(RmpModelNew(t).data_dir, c)
        /\ viewModel' = ViewModelInit(c)
        /\ firstInit' = IF firstInit = NoChan THEN c ELSE firstInit
        /\ chan' = [chan EXCEPT ![c] = [create_model_update_channel
                                           EXCEPT !.senders = SendersAfterInit(@),
                                                  !.rxHolders = IF model'.rx = c THEN @ ELSE 0]]
    /\ created' = created + 1
    /\ modelId' = created + 1
    /\ cell' = "init"
    /\ ref' = [ref EXCEPT ![t] = created + 1]
    /\ pc' = [pc EXCEPT ![t] = "lock"]
    /\ UNCHANGED <<lockVars, pushed, nextU, dropped, hostVars, fwdVars, op, tmp, unapplied, returned>>

\* What a call leaves behind when it ends: its locals are gone.
Leave(t, at) ==
    /\ pc' = [pc EXCEPT ![t] = at]
    /\ op' = [op EXCEPT ![t] = NoCall]
    /\ ref' = [ref EXCEPT ![t] = None]
    /\ tmp' = [tmp EXCEPT ![t] = 0]

\* The call returns to its caller.
Return(t) == Leave(t, "idle")

\* A panic unwinds the call; the calling thread does not go on.
Panic(t, at) == Leave(t, at)

\* A write() that excludes nobody.
CanWriteShared(t) == TRUE

\* RwLock::write(): granted when no guard is held.
CanWrite(t) == writer = None /\ readers = {}

\* A read lock that is granted while a writer holds the lock.
CanReadAlways(t) == TRUE

\* RwLock::read(): granted when no write guard is held.
CanRead(t) == writer = None

\* action(): `.write().expect(..)`.  A poisoned lock makes write() return Err
\* and expect panic; the guard inside the error is dropped by the unwinding.
\* With the guard held, model.action starts `self.count += 1` by reading count.
AcquireWrite(t) ==
    /\ pc[t] = "lock" /\ op[t].kind = "action"
    /\ CanWrite(t)
    /\ IF poisoned
       THEN /\ Panic(t, "panicked_lock")
            /\ UNCHANGED writer
       ELSE /\ pc' = [pc EXCEPT ![t] = "store"]
            /\ writer' = t
            /\ tmp' = [tmp EXCEPT ![t] = model.count]
            /\ UNCHANGED <<op, ref>>
    /\ UNCHANGED <<modelVars, readers, poisoned, chanVars, hostVars, fwdVars, unapplied,
                   returned>>

\* listen_for_model_updates(): `.read().expect(..)`.
AcquireRead(t) ==
    /\ pc[t] = "lock" /\ op[t].kind = "listen"
    /\ CanRead(t)
    /\ IF poisoned
       THEN /\ Panic(t, "panicked_lock")
            /\ UNCHANGED readers
       ELSE /\ pc' = [pc EXCEPT ![t] = "spawn"]
            /\ readers' = readers \cup {t}
            /\ UNCHANGED <<op, ref, tmp>>
    /\ UNCHANGED <<modelVars, writer, poisoned, chanVars, hostVars, fwdVars, unapplied,
                   returned>>

\* A guard whose drop leaves the lock held.
WriterAfterDropLeaked(t) == t

\* The write guard is dropped when action() ends: the lock is free again.
WriterAfterDrop(t) == None

\* model.action(action), second half: write the count.  An action that
\* publishes nothing then returns, and the write guard is dropped.
ActionStore(t) ==
    /\ pc[t] = "store"
    /\ model' = [model EXCEPT !.count = CountAfterAction(tmp[t])]
    /\ unapplied' = [unapplied EXCEPT ![t] = @ - 1]
    /\ IF op[t].emit
       THEN /\ pc' = [pc EXCEPT ![t] = "emit"]
            /\ UNCHANGED <<writer, op, ref, tmp, returned>>
       ELSE /\ Return(t)
            /\ writer' = WriterAfterDrop(t)
            /\ returned' = returned + 1
    /\ UNCHANGED <<cell, created, modelId, readers, poisoned, chanVars, hostVars, fwdVars>>

\* The Model's mutation step publishes: ViewModel::model_update(update), then
\* action() returns and drops the write guard.  A panic in send's expect
\* unwinds through the guard, which poisons the lock.
ActionEmit(t) ==
    /\ pc[t] = "emit"
    /\ ModelUpdate
    /\ writer' = WriterAfterDrop(t)
    /\ IF ModelUpdateOutcome = "panic"
       THEN /\ poisoned' = TRUE
            /\ Panic(t, "panicked_send")
            /\ UNCHANGED returned
       ELSE /\ Return(t)
            /\ returned' = returned + 1
            /\ UNCHANGED poisoned
    /\ UNCHANGED <<modelVars, readers, hostVars, fwdVars, unapplied>>

\* utils::listen_for_model_updates: clone the Arc of the Model's receiver and
\* spawn the forwarder thread; then the read guard is dropped.
SpawnForwarder(t) ==
    /\ pc[t] = "spawn"
    /\ \E f \in Fwds :
          /\ fwd[f].state = "unspawned"
          /\ \A g \in Fwds : g < f => fwd[g].state # "unspawned"
          /\ fwd' = [fwd EXCEPT ![f] = [state |-> "recv", chan |-> model.rx, item |-> None]]
    /\ chan' = [chan EXCEPT ![model.rx].rxHolders = @ + 1]
    /\ backlog' = IF \A f \in Fwds : fwd[f].state = "unspawned"
                  THEN chan[model.rx].queue
                  ELSE backlog
    /\ readers' = readers \ {t}
    /\ Return(t)
    /\ UNCHANGED <<modelVars, writer, poisoned, viewModel, firstInit, pushed, nextU, dropped,
                   hostVars, delivered, taken, atClose, unapplied, returned>>

\* ------------------------------------------------------ test_view_model
\* The thread running test_view_model shares the statics with the callers.
\* `let (sender, receiver) = unbounded();`
HostCreateChannel ==
    /\ hpc = "start"
    /\ chan' = [chan EXCEPT !["test"] = create_model_update_channel]
    /\ hpc' = "made"
    /\ UNCHANGED <<modelVars, lockVars, viewModel, firstInit, pushed, nextU, dropped, got,
                   fwdVars, pc, callVars>>

\* `TestViewModel::init(sender);`
HostInit ==
    /\ hpc = "made"
    /\ viewModel' = ViewModelInit("test")
    /\ firstInit' = IF firstInit = NoChan THEN "test" ELSE firstInit
    /\ chan' = [chan EXCEPT !["test"].senders = SendersAfterInit(@)]
    /\ hpc' = "inited"
    /\ UNCHANGED <<modelVars, lockVars, pushed, nextU, dropped, got, fwdVars, pc, callVars>>

\* `TestViewModel::model_update(..)`: in the test after init; ViewModel::model_update
\* is public and may as well be called before any init.  Outside the Model's
\* mutation step a panic in send's expect poisons nothing.
HostModelUpdate ==
    /\ hpc \in {"start", "made", "inited"}
    /\ nextU + Cardinality({u \in Callers : op[u].emit}) <= MaxUpdates
    /\ ModelUpdate
    /\ hpc' = IF ModelUpdateOutcome = "panic" THEN "panicked_send"
              ELSE IF hpc = "inited" THEN "sent" ELSE hpc
    /\ UNCHANGED <<modelVars, lockVars, got, fwdVars, pc, callVars>>

\* receiver.try_recv(): the head of the queue, or Err.
TryRecv(q) == IF q = <<>> THEN <<"Err">> ELSE <<"Ok", Head(q)>>

\* `if let Ok(update) = receiver.try_recv()`
HostTryRecv ==
    /\ hpc = "sent"
    /\ got' = TryRecv(chan["test"].queue)
    /\ chan' = [chan EXCEPT !["test"].queue = IF @ = <<>> THEN @ ELSE Tail(@)]
    /\ hpc' = "received"
    /\ UNCHANGED <<modelVars, lockVars, viewModel, firstInit, pushed, nextU, dropped,
                   fwdVars, pc, callVars>>

\* test_view_model returns (or panics on "No update received"): its local
\* receiver is dropped.
HostReturn ==
    /\ hpc = "received"
    /\ hpc' = "done"
    /\ chan' = [chan EXCEPT !["test"].rxHolders = @ - 1]
    /\ UNCHANGED <<modelVars, lockVars, viewModel, firstInit, pushed, nextU, dropped, got,
                   fwdVars, pc, callVars>>

\* ------------------------------------------------------ forwarder threads
\* A recv that hands out the newest item.
RecvNewest(q) == q[Len(q)]

\* Receiver::recv on the shared receiver: the head of the queue.
Recv(q) == Head(q)

\* A recv that returns Err as soon as no sender is left.
DisconnectedEarly(c) == chan[c].senders = 0

\* A recv that keeps waiting on a closed channel.
DisconnectedNever(c) == FALSE

\* Receiver::recv returns Err only when the queue is empty and no sender is left.
Disconnected(c) == chan[c].queue = <<>> /\ chan[c].senders = 0

\* A recv that leaves the item it hands out in the queue.
QueueAfterRecvPeek(q) == q

\* Receiver::recv removes the item it returns from the shared queue.
QueueAfterRecv(q) == Tail(q)

\* A loop that asks for the next item while notify for the last one still runs.
CanRecvEager(f) == fwd[f].state \in {"recv", "notify"}

\* The loop body is sequential: recv is called at the top of the loop, after
\* the notify of the item before has returned.
CanRecv(f) == fwd[f].state = "recv"

\* `while let Ok(update) = model_update_rx.recv()`: an item is received.
ForwarderRecv(f) ==
    /\ CanRecv(f)
    /\ chan[fwd[f].chan].queue # <<>>
    /\ fwd' = [fwd EXCEPT ![f].state = "notify", ![f].item = Recv(chan[fwd[f].chan].queue)]
    /\ chan' = [chan EXCEPT ![fwd[f].chan].queue = QueueAfterRecv(@)]
    /\ taken' = [taken EXCEPT ![f] = @ + 1]
    /\ UNCHANGED <<modelVars, lockVars, viewModel, firstInit, pushed, nextU, dropped,
                   hostVars, delivered, backlog, atClose, pc, callVars>>

\* `view_model.model_update(update)` returns; the loop asks for the next item.
ForwarderNotify(f) ==
    /\ fwd[f].state = "notify"
    /\ delivered' = [delivered EXCEPT ![f] = Append(@, fwd[f].item)]
    /\ fwd' = [fwd EXCEPT ![f].state = "recv", ![f].item = None]
    /\ UNCHANGED <<modelVars, lockVars, chanVars, hostVars, taken, backlog, atClose, pc, callVars>>

\* recv() returns Err: the loop and the thread end; the closure's Arc clone
\* of the receiver and the observer are dropped.
ForwarderExit(f) ==
    /\ fwd[f].state = "recv"
    /\ Disconnected(fwd[f].chan)
    /\ fwd' = [fwd EXCEPT ![f].state = "done"]
    /\ chan' = [chan EXCEPT ![fwd[f].chan].rxHolders = @ - 1]
    /\ UNCHANGED <<modelVars, lockVars, viewModel, firstInit, pushed, nextU, dropped,
                   hostVars, delivered, taken, backlog, atClose, pc, callVars>>

\* ------------------------------------------------------------------ Next
CallerNext(t) ==
    \/ \E e \in BOOLEAN : CallAction(t, e)
    \/ CallListen(t)
    \/ WaitGlobalModel(t)
    \/ RunCreate(t)
    \/ AcquireWrite(t)
    \/ AcquireRead(t)
    \/ ActionStore(t)
    \/ ActionEmit(t)
    \/ SpawnForwarder(t)

HostNext ==
    \/ HostCreateChannel
    \/ HostInit
    \/ HostModelUpdate
    \/ HostTryRecv
    \/ HostReturn

ForwarderNext(f) ==
    \/ ForwarderRecv(f)
    \/ ForwarderNotify(f)
    \/ ForwarderExit(f)

Next ==
    \/ \E t \in Callers : CallerNext(t)
    \/ HostNext
    \/ \E f \in Fwds : ForwarderNext(f)

Spec == Init /\ [][Next]_vars

\* ------------------------------------- the utils functions used directly
\* An application that does not go through register_app!: it calls
\* create_app_builder, builds its model from the AppBuilder (which holds the
\* receiver), keeps the Sender, and calls utils::listen_for_model_updates on
\* the model.
LoopInit ==
    /\ cell = "uninit" /\ created = 0 /\ modelId = None
    /\ model = [count |-> 0,
                data_dir |-> AppBuilderNew(None, "model").data_dir,
                rx |-> AppBuilderNew(None, "model").model_update_rx]
    /\ writer = None /\ readers = {} /\ poisoned = FALSE
    /\ viewModel = NoChan /\ firstInit = NoChan
    /\ chan = [c \in Chans |-> IF c = "model" THEN create_model_update_channel ELSE NoChannel]
    /\ pushed = [c \in Chans |-> <<>>]
    /\ nextU = 1 /\ dropped = {}
    /\ pc = [t \in Callers |-> "idle"]
    /\ op = [t \in Callers |-> NoCall]
    /\ ref = [t \in Callers |-> None]
    /\ tmp = [t \in Callers |-> 0]
    /\ unapplied = [t \in Callers |-> 0]
    /\ returned = 0
    /\ hpc = "start" /\ got = <<"none">>
    /\ fwd = [f \in Fwds |-> [state |-> "unspawned", chan |-> NoChan, item |-> None]]
    /\ delivered = [f \in Fwds |-> <<>>]
    /\ taken = [f \in Fwds |-> 0]
    /\ backlog = <<>> /\ atClose = <<>>

\* Sender::send on the Sender returned by create_app_builder.
SenderSend ==
    /\ chan[model.rx].senders > 0
    /\ nextU <= MaxUpdates
    /\ CanSend(chan[model.rx].queue)
    /\ chan' = [chan EXCEPT ![model.rx].queue = Send(@, nextU)]
    /\ pushed' = [pushed EXCEPT ![model.rx] = Append(@, nextU)]
    /\ nextU' = nextU + 1
    /\ UNCHANGED <<modelVars, lockVars, viewModel, firstInit, dropped, hostVars, fwdVars,
                   pc, callVars>>

\* The application drops its Sender: the channel has no sender left.
SenderDrop ==
    /\ chan[model.rx].senders > 0
    /\ chan' = [chan EXCEPT ![model.rx].senders = @ - 1]
    /\ atClose' = chan[model.rx].queue
    /\ UNCHANGED <<modelVars, lockVars, viewModel, firstInit, pushed, nextU, dropped,
                   hostVars, fwd, delivered, taken, backlog, pc, callVars>>

\* utils::listen_for_model_updates(&model, view_model): clone the Arc of the
\* model's receiver and spawn the forwarder thread.
UtilsListen ==
    /\ \E f \in Fwds :
          /\ fwd[f].state = "unspawned"
          /\ \A g \in Fwds : g < f => fwd[g].state # "unspawned"
          /\ fwd' = [fwd EXCEPT ![f] = [state |-> "recv", chan |-> model.rx, item |-> None]]
    /\ chan' = [chan EXCEPT ![model.rx].rxHolders = @ + 1]
    /\ backlog' = IF \A f \in Fwds : fwd[f].state = "unspawned"
                  THEN chan[model.rx].queue
                  ELSE backlog
    /\ UNCHANGED <<modelVars, lockVars, viewModel, firstInit, pushed, nextU, dropped,
                   hostVars, delivered, taken, atClose, pc, callVars>>

LoopNext ==
    \/ SenderSend
    \/ SenderDrop
    \/ UtilsListen
    \/ \E f \in Fwds : ForwarderNext(f)

LoopSpec == LoopInit /\ [][LoopNext]_vars

\* Threads are scheduled: a call in progress and a forwarder each take their
\* next step when it stays possible.
CallStep(t) ==
    \/ WaitGlobalModel(t)
    \/ RunCreate(t)
    \/ AcquireWrite(t)
    \/ AcquireRead(t)
    \/ ActionStore(t)
    \/ ActionEmit(t)
    \/ SpawnForwarder(t)

FairSpec ==
    /\ Spec
    /\ \A t \in Callers : WF_vars(CallStep(t))
    /\ \A f \in Fwds : WF_vars(ForwarderNext(f))

\* ---------------------------------------------------------------- claims
HasModel(t) == pc[t] \in {"lock", "store", "emit", "spawn"}
InCall(t) == pc[t] \in {"get_or_init", "create", "lock", "store", "emit", "spawn"}
Spawned == {f \in Fwds : fwd[f].state # "unspawned"}
InFlight(f) == IF fwd[f].state = "notify" THEN <<fwd[f].item>> ELSE <<>>

\* C1: however the callers' first calls interleave, the Model factory runs at
\* most once, the cell holds the instance that run made, and every caller that
\* is past get_or_set_global_model holds that same, constructed, instance.
C1_FirstCallWins ==
    /\ created <= 1
    /\ (cell = "init") = (created = 1)
    /\ cell = "init" => modelId = created /\ model.rx = "model"
    /\ \A t \in Callers : HasModel(t) => cell = "init" /\ ref[t] = modelId

\* Two callers' first calls overlapped and both hold the one instance.
C1_Witness ==
    \E t, u \in Callers :
        /\ t # u /\ pc[t] = "lock" /\ pc[u] = "lock"
        /\ model.count = 0 /\ returned = 0 /\ Spawned = {}
        /\ ref[t] = modelId /\ ref[u] = modelId /\ created = 1

\* C2: with one registered observer, what the observer has been notified of,
\* then the item inside notify, then the queue, is exactly the sequence sent
\* on the channel: nothing skipped, duplicated or reordered; when the queue is
\* drained every update sent has been notified once, in send order.
C2_OrderedExactlyOnce ==
    \A f \in Fwds :
        Spawned = {f} =>
            delivered[f] \o InFlight(f) \o chan[fwd[f].chan].queue = pushed[fwd[f].chan]

\* The one observer has been notified of two updates.
C2_Witness ==
    \E f \in Fwds : Spawned = {f} /\ Len(delivered[f]) >= 2 /\ delivered[f] = pushed[fwd[f].chan]

\* C3: a caller in the mutation step holds the write guard and the count it
\* read is still the Model's count; the count equals the number of dispatches
\* whose mutation ran (those returned, those publishing, those that panicked
\* while publishing), so with every dispatch returned it is their number.
C3_NoLostActions ==
    /\ \A t \in Callers : pc[t] = "store" => writer = t /\ tmp[t] = model.count
    /\ model.count = returned + Cardinality({t \in Callers : pc[t] \in {"emit", "panicked_send"}})

\* Two dispatches have returned and two more are racing for the lock.
C3_Witness ==
    /\ returned >= 2 /\ model.count = returned
    /\ \E t, u \in Callers : t # u /\ pc[t] = "store" /\ pc[u] = "lock" /\ op[u].kind = "action"

\* C4: the lock never deadlocks the callers: under fair scheduling every call
\* in progress ends (it returns, or panics on a poisoned lock), and with no
\* call in progress the lock is free; a caller has at most one action not yet
\* applied and none when it submits the next, so its actions are applied in
\* the order it submitted them.
C4_NoDeadlockInOrder ==
    /\ \A t \in Callers : InCall(t) ~> ~InCall(t)
    /\ []((\A t \in Callers : ~InCall(t)) => writer = None /\ readers = {})
    /\ [](\A t \in Callers : unapplied[t] \in {0, 1} /\ (pc[t] = "idle" => unapplied[t] = 0))

\* A dispatch waits for the lock while a registration holds the read guard.
C4_Witness ==
    \E t, u \in Callers :
        /\ pc[t] = "lock" /\ op[t].kind = "action" /\ unapplied[t] = 1
        /\ u \in readers /\ pc[u] = "spawn" /\ model.count >= 1

\* C5: a registration after the first is a no-op: the observer of a later
\* registration is never given an update.
C5_ReRegistrationIgnored ==
    \A f \in Fwds : f > 1 => delivered[f] = <<>> /\ fwd[f].state # "notify"

\* C6: under fair scheduling a forwarder whose channel has no sender left
\* ends its loop in the normal way, and the step that ends it touches neither
\* the lock nor any caller.
C6_ForwarderTerminates ==
    /\ \A f \in Fwds :
          (fwd[f].state \in {"recv", "notify"} /\ chan[fwd[f].chan].senders = 0)
              ~> (fwd[f].state = "done")
    /\ [][\A f \in Fwds : (fwd[f].state # "done" /\ fwd'[f].state = "done")
              => UNCHANGED <<writer, readers, poisoned, pc>>]_vars

\* A forwarder has ended while a dispatch holds the write guard.
C6_Witness ==
    \E f \in Fwds : fwd[f].state = "done" /\ chan[fwd[f].chan].senders = 0 /\ writer # None

Range(q) == {q[i] : i \in 1..Len(q)}

\* Every update that is in some queue, inside notify, notified or received.
Kept ==
    UNION {Range(chan[c].queue) : c \in Chans}
      \cup UNION {Range(delivered[f]) \cup Range(InFlight(f)) : f \in Fwds}
      \cup (IF got[1] = "Ok" THEN {got[2]} ELSE {})

\* C7: an update published while no sender is bound is in no channel and is
\* never delivered or received, whatever init and registration follow; the
\* publishing call returns normally: model_update panics only with a sender
\* bound whose channel has no receiver.
C7_SilentDrop ==
    /\ dropped \cap Kept = {}
    /\ (hpc = "panicked_send" \/ \E t \in Callers : pc[t] = "panicked_send")
          => viewModel # NoChan /\ chan[viewModel].rxHolders = 0

\* An update was dropped, a sender was bound afterwards and an observer has
\* been notified of a later update.
C7_Witness ==
    /\ dropped # {} /\ viewModel # NoChan
    /\ \E f \in Fwds : delivered[f] # <<>> /\ \A u \in dropped : u < delivered[f][1]

\* C8: the sender of the first init stays bound, and no update is ever put on
\* a channel other than that sender's.
C8_FirstSenderStays ==
    /\ (firstInit = NoChan) = (viewModel = NoChan)
    /\ firstInit # NoChan => viewModel = firstInit
    /\ \A c \in Chans : c # firstInit =>
          /\ chan[c].queue = <<>>
          /\ \A f \in Fwds : fwd[f].chan = c => delivered[f] = <<>> /\ fwd[f].state # "notify"
          /\ c = "test" => got[1] # "Ok"

\* The Model's sender was bound first; test_view_model called init, published
\* and found its own channel empty.
C8_Witness ==
    firstInit = "model" /\ hpc = "received" /\ got = <<"Err">> /\ chan["model"].queue # <<>>

\* C9: a step that publishes while a sender is bound and its channel has a
\* receiver appends exactly the published update at the tail of that channel's
\* queue and changes no other queue; try_recv then returns the head.
C9_PublishEnqueues ==
    [][/\ (nextU' = nextU + 1 /\ viewModel # NoChan /\ chan[viewModel].rxHolders > 0)
            => /\ chan'[viewModel].queue = Append(chan[viewModel].queue, nextU)
               /\ \A c \in Chans \ {viewModel} : chan'[c].queue = chan[c].queue
       /\ (hpc = "sent" /\ hpc' = "received" /\ chan["test"].queue # <<>>)
            => /\ got' = <<"Ok", Head(chan["test"].queue)>>
               /\ chan'["test"].queue = Tail(chan["test"].queue)]_vars

\* test_view_model published onto its empty queue and received that update.
C9_Witness ==
    /\ hpc = "received" /\ firstInit = "test"
    /\ Len(pushed["test"]) = 1 /\ got = <<"Ok", pushed["test"][1]>>

\* C10: a call made on a poisoned lock does not panic.
C10_PoisonRecoverable ==
    \A t \in Callers : pc[t] # "panicked_lock"

\* C11: the container becomes Initialized once, by the first run of the Model
\* factory, which a call of action() or of listen_for_model_updates() makes;
\* from then on it stays Initialized with the same instance: the same
\* identity, receiver and data directory, and a count that is never reset.
C11_InitializedOnce ==
    [][/\ (cell # "init" /\ cell' = "init")
            => /\ created = 0 /\ created' = 1
               /\ \E t \in Callers : pc[t] = "create" /\ op[t].kind \in {"action", "listen"}
       /\ cell = "init"
            => /\ cell' = "init" /\ created' = created /\ modelId' = modelId
               /\ model'.rx = model.rx /\ model'.data_dir = model.data_dir
               /\ model'.count >= model.count]_vars

\* listen_for_model_updates() ran first and created the Model: a forwarder is
\* spawned and no action() was ever called.
C11_Witness ==
    /\ cell = "init" /\ created = 1 /\ model.count = 0
    /\ \E f \in Fwds : fwd[f].state # "unspawned"
    /\ \A t \in Callers : unapplied[t] = 0 /\ op[t].kind # "action"

\* C12: the Model is built with the data_dir of the handle whose call ran the
\* factory, and no later call, through whatever handle, changes it.
C12_DataDirFixed ==
    [][/\ (cell # "init" /\ cell' = "init")
            => \E t \in Callers :
                  /\ pc[t] = "create" /\ pc'[t] = "lock"
                  /\ model'.data_dir = RmpModelNew(t).data_dir
       /\ cell = "init" => model'.data_dir = model.data_dir]_vars

\* A dispatch through a handle with another data_dir has been applied to the
\* Model.
C12_Witness ==
    /\ cell = "init" /\ model.count >= 2
    /\ \E t \in Callers :
          /\ RmpModelNew(t).data_dir # model.data_dir
          /\ pc[t] = "emit" /\ unapplied[t] = 0

\* C13: a dispatch that is publishing can always take its step, however many
\* updates are queued and whatever the forwarders do: the step never waits for
\* a consumer, it ends the publish with the write lock released, and it is a
\* normal return unless the bound channel has lost every receiver (then send
\* fails and the step is the panic of model_update).
C13_ProducersNeverBlock ==
    \A t \in Callers :
        pc[t] = "emit"
            => /\ writer = t
               /\ ENABLED (ActionEmit(t) /\ writer' = None /\ pc'[t] # "emit")
               /\ ModelUpdateOutcome # "panic"
                    => ENABLED (ActionEmit(t) /\ writer' = None /\ pc'[t] = "idle")

\* A dispatch is publishing while an earlier update is still queued and no
\* forwarder has been started.
C13_Witness ==
    /\ \E t \in Callers : pc[t] = "emit"
    /\ viewModel # NoChan /\ chan[viewModel].queue # <<>>
    /\ \A f \in Fwds : fwd[f].state = "unspawned"

\* C14: the callers inside the mutation step are exactly the holder of the
\* write lock, so there is at most one; the callers between read-lock
\* acquisition and release are exactly the readers; and the lock is never held
\* for writing and for reading at once.
C14_LockDiscipline ==
    /\ {t \in Callers : pc[t] \in {"store", "emit"}}
          = (IF writer = None THEN {} ELSE {writer})
    /\ {t \in Callers : pc[t] = "spawn"} = readers
    /\ writer # None => readers = {}
    /\ readers # {} => writer = None

\* Two listen_for_model_updates calls hold the read lock together.
C14_Witness == Cardinality(readers) >= 2 /\ writer = None

\* C15: a forwarder has at most one update taken from the channel and not yet
\* notified, and it has one exactly while it is inside notify: every recv that
\* returned an item is followed by the return of its notify before the next
\* recv.
C15_OneInFlight ==
    \A f \in Fwds :
        /\ taken[f] - Len(delivered[f]) = (IF fwd[f].state = "notify" THEN 1 ELSE 0)
        /\ (fwd[f].state = "notify") = (fwd[f].item # None)

\* A forwarder is inside notify for the second update it took, the notify of
\* its first one having returned.
C15_Witness ==
    \E f \in Fwds :
        /\ fwd[f].state = "notify" /\ taken[f] = 2 /\ Len(delivered[f]) = 1

\* C16: the forwarders of the Model all drain the one receiver of the Model,
\* so an update sent on its channel is at any time in exactly one place: in
\* the queue, in the hand of one forwarder, or notified to one observer, once.
\* The updates notified are the updates dequeued whose notify has returned.
C16_ExactlyOneObserver ==
    LET c == model.rx
        At(f) == Range(delivered[f]) \cup Range(InFlight(f))
    IN  Spawned # {}
        => /\ \A f \in Spawned : fwd[f].chan = c
           /\ \A f, g \in Spawned : f # g => At(f) \cap At(g) = {}
           /\ \A f \in Spawned :
                 /\ Cardinality(Range(delivered[f])) = Len(delivered[f])
                 /\ At(f) \cap Range(chan[c].queue) = {}
                 /\ Range(delivered[f]) \cap Range(InFlight(f)) = {}
           /\ Range(pushed[c])
                 = Range(chan[c].queue) \cup UNION {At(f) : f \in Spawned}
           /\ Len(pushed[c]) - Len(chan[c].queue)
                 = Cardinality(UNION {At(f) : f \in Spawned})

\* Two forwarders are registered on the Model and each has notified its
\* observer of one of the two updates published.
C16_Witness ==
    /\ Cardinality(Spawned) = 2
    /\ \A f \in Spawned : Len(delivered[f]) = 1
    /\ Len(pushed[model.rx]) = 2

\* C17: while no forwarder has been started every update sent on the Model's
\* channel is still queued, in send order; the updates queued when the first
\* forwarder starts are the first updates sent, and a single forwarder hands
\* the updates to its observer in send order, so it notifies those buffered
\* updates first and the later ones after them.
C17_BufferedBeforeListen ==
    LET c == "model"
        IsPrefix(p, q) == Len(p) <= Len(q) /\ SubSeq(q, 1, Len(p)) = p
    IN  /\ Spawned = {} => chan[c].queue = pushed[c] /\ backlog = <<>>
        /\ IsPrefix(backlog, pushed[c])
        /\ \A f \in Fwds :
              Spawned = {f}
                  => /\ IsPrefix(delivered[f] \o InFlight(f), pushed[c])
                     /\ \/ IsPrefix(delivered[f] \o InFlight(f), backlog)
                        \/ IsPrefix(backlog, delivered[f] \o InFlight(f))

\* Two updates were published before the first listen_for_model_updates, and
\* the forwarder started by it has notified its observer of both, in order.
C17_Witness ==
    \E f \in Fwds :
        /\ Spawned = {f} /\ Len(backlog) = 2
        /\ delivered[f] = backlog /\ backlog = pushed["model"]

\* C18: a forwarder ends only on a channel that has no sender and no queued
\* update.  The updates queued when the last sender was dropped are not lost
\* by the closing: each is queued, in the hand of a forwarder or notified; a
\* single forwarder that has ended has notified its observer of every update
\* sent, in send order, and forwarders that have all ended have between them
\* notified every update sent.
C18_CloseDrainsFirst ==
    LET c == model.rx
        At(f) == Range(delivered[f]) \cup Range(InFlight(f))
    IN  /\ \A f \in Fwds :
              fwd[f].state = "done"
                  => /\ chan[c].senders = 0 /\ chan[c].queue = <<>>
                     /\ Spawned = {f} => delivered[f] = pushed[c]
        /\ chan[c].senders = 0
              => Range(atClose) \subseteq
                     Range(chan[c].queue) \cup UNION {At(f) : f \in Spawned}
        /\ (Spawned # {} /\ \A f \in Spawned : fwd[f].state = "done")
              => UNION {Range(delivered[f]) : f \in Spawned} = Range(pushed[c])

\* The Sender was dropped with two updates queued; the forwarder has notified
\* its observer of both, in order, and then ended.
C18_Witness ==
    \E f \in Fwds :
        /\ Spawned = {f} /\ fwd[f].state = "done"
        /\ Len(atClose) = 2 /\ delivered[f] = atClose

\* C19: when the bound sender is the one of the channel made by the Model
\* factory, the Model holds the receiver of that channel, the channel has at
\* least one receiver in every state, a model_update would be sent and not
\* fail, no call has ended in the send panic and the lock is not poisoned.
C19_SendNeverFails ==
    (cell = "init" /\ viewModel = "model")
        => /\ model.rx = viewModel
           /\ chan[viewModel].rxHolders >= 1
           /\ chan[viewModel].rxHolders
                 = 1 + Cardinality({f \in Fwds : fwd[f].state \in {"recv", "notify"}})
           /\ ModelUpdateOutcome = "sent"
           /\ ~poisoned
           /\ hpc # "panicked_send"
           /\ \A t \in Callers : pc[t] \notin {"panicked_send", "panicked_lock"}

\* The sender of the Model's channel is bound, test_view_model has ended and
\* dropped its own receiver, a forwarder runs, and dispatches that published
\* both updates have returned.
C19_Witness ==
    /\ cell = "init" /\ viewModel = "model" /\ hpc = "done"
    /\ Spawned # {} /\ Len(pushed["model"]) = 2 /\ returned >= 2

====
